---- MODULE Spec2Model ----
(***************************************************************************)
(* A model of the ipc-agent JSON-RPC method registry (Handlers), of the    *)
(* join_subnet and kill_subnet handlers, and of the f64 -> TokenAmount      *)
(* conversion they use.                                                     *)
(*                                                                          *)
(* Sources: src/src/server/handlers/mod.rs,                                 *)
(*          src/src/server/handlers/manager/join.rs,                        *)
(*          src/src/server/handlers/manager/kill.rs.                        *)
(***************************************************************************)
EXTENDS Integers, Sequences, FiniteSets, TLC

(***************************************************************************)
(* Natural numbers of arbitrary size.  A number is the sequence of its     *)
(* digits in base 2^13, least significant first, without leading zeros:    *)
(* <<>> is 0, <<1>> is 1, <<0, 1>> is 8192.  u128, the 53-bit significands *)
(* of f64 and their products do not fit a machine integer of the model     *)
(* checker.                                                                 *)
(***************************************************************************)
Base == 2 ^ 13

RECURSIVE Norm(_)
Norm(b) ==
    IF b = <<>> THEN <<>>
    ELSE IF b[Len(b)] = 0 THEN Norm(SubSeq(b, 1, Len(b) - 1))
    ELSE b

RECURSIVE Num(_)
Num(n) == IF n = 0 THEN <<>> ELSE <<n % Base>> \o Num(n \div Base)

RECURSIVE SmallBitLen(_)
SmallBitLen(n) == IF n = 0 THEN 0 ELSE 1 + SmallBitLen(n \div 2)

\* The number of binary digits of b.
BitLen(b) == IF b = <<>> THEN 0 ELSE 13 * (Len(b) - 1) + SmallBitLen(b[Len(b)])

RECURSIVE AddC(_, _, _)
AddC(a, b, c) ==
    IF a = <<>> /\ b = <<>> THEN (IF c = 0 THEN <<>> ELSE <<c>>)
    ELSE LET x == IF a = <<>> THEN 0 ELSE Head(a)
             y == IF b = <<>> THEN 0 ELSE Head(b)
             s == x + y + c
         IN  <<s % Base>> \o AddC(IF a = <<>> THEN <<>> ELSE Tail(a),
                                  IF b = <<>> THEN <<>> ELSE Tail(b),
                                  s \div Base)

Add(a, b) == AddC(a, b, 0)

\* a * n + c for digits n and c.
RECURSIVE MulSmallC(_, _, _)
MulSmallC(a, n, c) ==
    IF a = <<>> THEN (IF c = 0 THEN <<>> ELSE <<c>>)
    ELSE LET p == Head(a) * n + c
         IN  <<p % Base>> \o MulSmallC(Tail(a), n, p \div Base)

MulSmall(a, n) == IF n = 0 THEN <<>> ELSE MulSmallC(a, n, 0)

ShiftDigits(b, k) == IF b = <<>> THEN <<>> ELSE [i \in 1..k |-> 0] \o b

RECURSIVE Mul(_, _)
Mul(a, b) ==
    IF a = <<>> \/ b = <<>> THEN <<>>
    ELSE Add(MulSmall(a, Head(b)), ShiftDigits(Mul(a, Tail(b)), 1))

\* b * 2^k.
ShiftLeft(b, k) == ShiftDigits(MulSmall(b, 2 ^ (k % 13)), k \div 13)

\* b \div 2^k.
ShiftRight(b, k) ==
    LET d == k \div 13
        r == k % 13
        n == Len(b) - d
        at(i) == IF i <= Len(b) THEN b[i] ELSE 0
    IN  IF n <= 0 THEN <<>>
        ELSE Norm([i \in 1..n |->
                     (at(d + i) \div 2 ^ r) + (at(d + i + 1) % 2 ^ r) * 2 ^ (13 - r)])

\* b % 2^k.
LowBits(b, k) ==
    LET d == k \div 13
        r == k % 13
    IN  IF k <= 0 THEN <<>>
        ELSE IF d >= Len(b) THEN b
        ELSE Norm([i \in 1..(d + 1) |-> IF i <= d THEN b[i] ELSE b[i] % 2 ^ r])

Pow2(k) == ShiftLeft(<<1>>, k)

IsOdd(b) == b # <<>> /\ b[1] % 2 = 1

\* a < b for two numbers in canonical form.
RECURSIVE LessFrom(_, _, _)
LessFrom(a, b, i) ==
    IF i = 0 THEN FALSE
    ELSE IF a[i] # b[i] THEN a[i] < b[i]
    ELSE LessFrom(a, b, i - 1)

Less(a, b) ==
    IF Len(a) # Len(b) THEN Len(a) < Len(b) ELSE LessFrom(a, b, Len(a))

Leq(a, b) == ~Less(b, a)

\* The number written with the decimal digits ds, most significant first.
RECURSIVE Dec(_)
Dec(ds) ==
    IF ds = <<>> THEN <<>>
    ELSE Add(MulSmall(Dec(SubSeq(ds, 1, Len(ds) - 1)), 10), Num(ds[Len(ds)]))

(***************************************************************************)
(* IEEE-754 binary64.  A value is its three fields: the sign s, the biased *)
(* exponent e in 0..2047 and the 52-bit fraction m (a number as above).    *)
(* e = 2047 is an infinity (m = 0) or a NaN; e = 0 is a zero or a          *)
(* subnormal; a finite value is (-1)^s * Sig * 2^Exp2.                      *)
(***************************************************************************)
F64(s, e, m) == [s |-> s, e |-> e, m |-> m]

IsNaN(f) == f.e = 2047 /\ f.m # <<>>

IsInf(f) == f.e = 2047 /\ f.m = <<>>

IsFinite(f) == f.e # 2047

IsNegative(f) == f.s = 1

Sig(f) == IF f.e = 0 THEN f.m ELSE Add(f.m, Pow2(52))

Exp2(f) == IF f.e = 0 THEN 0 - 1074 ELSE f.e - 1075

Max(a, b) == IF a >= b THEN a ELSE b

\* Q * 2^E1 with Q < 2^53 as a binary64: subnormal when Q < 2^52 (then E1 is
\* -1074), an infinity when the exponent is out of range.
Encode(s, Q, E1) ==
    IF BitLen(Q) < 53 THEN F64(s, 0, Q)
    ELSE IF E1 + 1075 >= 2047 THEN F64(s, 2047, <<>>)
    ELSE F64(s, E1 + 1075, LowBits(Q, 52))

\* A rounded significand of 2^53 is renormalised.
Pack(s, Q0, E0) ==
    IF BitLen(Q0) = 54 THEN Encode(s, ShiftRight(Q0, 1), E0 + 1)
    ELSE Encode(s, Q0, E0)

\* kept + rest / (2 * half) rounded to nearest, ties to even.
RoundHalfEven(kept, rest, half) ==
    IF Less(half, rest) \/ (rest = half /\ IsOdd(kept))
    THEN Add(kept, <<1>>)
    ELSE kept

\* P / 2^shift rounded to nearest, ties to even.
Rounded(P, shift) ==
    IF shift <= 0 THEN ShiftLeft(P, 0 - shift)
    ELSE RoundHalfEven(ShiftRight(P, shift), LowBits(P, shift), Pow2(shift - 1))

RoundShift(s, P, E, shift) == Pack(s, Rounded(P, shift), E + shift)

\* P * 2^E (P > 0) rounded to the nearest binary64, ties to even: 53 binary
\* digits are kept, fewer below the smallest normal number.
RoundPack(s, P, E) == RoundShift(s, P, E, Max(BitLen(P) - 53, (0 - 1074) - E))

\* a * b in binary64 arithmetic.
f64_mul(a, b) ==
    LET s == (a.s + b.s) % 2
    IN  IF IsNaN(a) \/ IsNaN(b) THEN F64(0, 2047, <<1>>)
        ELSE IF IsInf(a) \/ IsInf(b)
             THEN (IF (IsFinite(a) /\ Sig(a) = <<>>) \/ (IsFinite(b) /\ Sig(b) = <<>>)
                   THEN F64(0, 2047, <<1>>)
                   ELSE F64(s, 2047, <<>>))
        ELSE IF Sig(a) = <<>> \/ Sig(b) = <<>> THEN F64(s, 0, <<>>)
        ELSE RoundPack(s, Mul(Sig(a), Sig(b)), Exp2(a) + Exp2(b))

\* n as f64, for 0 < n < 2^31 (exact: n has fewer than 53 binary digits).
u64_as_f64(n) ==
    RoundPack(0, Num(n), 0)

\* f64::trunc: the integer part, rounding toward zero.
f64_trunc(f) ==
    LET x == f.e - 1023
    IN  IF ~IsFinite(f) THEN f
        ELSE IF x < 0 THEN F64(f.s, 0, <<>>)
        ELSE IF x >= 52 THEN f
        ELSE F64(f.s, f.e, ShiftLeft(ShiftRight(f.m, 52 - x), 52 - x))

\* u128::MAX = 2^128 - 1.
U128Max == [i \in 1..10 |-> IF i <= 9 THEN Base - 1 ELSE 2 ^ 11 - 1]

\* `f as u128`: toward zero, saturating; NaN is 0.
f64_as_u128(f) ==
    IF IsNaN(f) THEN <<>>
    ELSE IF IsNegative(f) THEN <<>>
    ELSE IF IsInf(f) THEN U128Max
    ELSE IF Sig(f) = <<>> THEN <<>>
    ELSE IF BitLen(Sig(f)) + Exp2(f) > 128 THEN U128Max
    ELSE IF Exp2(f) >= 0 THEN ShiftLeft(Sig(f), Exp2(f))
    ELSE ShiftRight(Sig(f), 0 - Exp2(f))

FIL_AMOUNT_NANO_DIGITS == 9

\* Result values: Ok(v) and Err(e).
Ok(v) == [ok |-> TRUE, v |-> v]

Err(e) == [ok |-> FALSE, v |-> e]

\* f64_to_token_amount with one decimal digit too few in the scale.
f64_to_token_amount_short_scale(f) ==
    Ok(f64_as_u128(f64_trunc(f64_mul(f, u64_as_f64(10 ^ (FIL_AMOUNT_NANO_DIGITS - 1))))))

\* TokenAmount::from_nano(nano as u128), as the number of nano units.
f64_to_token_amount(f) ==
    LET nano == f64_trunc(f64_mul(f, u64_as_f64(10 ^ FIL_AMOUNT_NANO_DIGITS)))
    IN  Ok(f64_as_u128(nano))

(***************************************************************************)
(* Option values and the errors of the handlers.                           *)
(***************************************************************************)
Some(v) == [some |-> TRUE, v |-> v]

None == [some |-> FALSE, v |-> <<>>]

MethodNotSupported == "method not supported"

NoParentFound == "no parent found"

ParentSubnetNotFound == "target parent subnet not found"

\* The serde_json error of a payload that does not decode (InvalidParams).
InvalidParams == "invalid params"

InvalidSubnetId == "invalid subnet id"

InvalidAddress == "invalid address"

SubnetMismatch == "subnet mismatch"

NoDefaultAccount == "no default account"

InvalidAmount == "invalid amount"

\* The unit response `()`.
Unit == "()"

(***************************************************************************)
(* SubnetID: a path of chain identifiers.  A string is the sequence of its *)
(* tokens: the separator "/" and the identifiers between separators.       *)
(***************************************************************************)
ChainIds == {"root", "A", "B", "C", "D"}

SubnetID_from_str(s) ==
    IF /\ Len(s) >= 2
       /\ Len(s) % 2 = 0
       /\ \A i \in 1..Len(s) : IF i % 2 = 1 THEN s[i] = "/" ELSE s[i] \in ChainIds
    THEN Ok([i \in 1..(Len(s) \div 2) |-> s[2 * i]])
    ELSE Err(InvalidSubnetId)

SubnetID_parent(id) ==
    IF Len(id) <= 1 THEN None ELSE Some(SubSeq(id, 1, Len(id) - 1))

\* Strings are sequences of tokens; an address is a single token.
ValidAddrs == {<<"f1from">>, <<"f1default">>, <<"f1worker">>}

Address_from_str(s) ==
    IF s \in ValidAddrs THEN Ok([addr |-> s]) ELSE Err(InvalidAddress)

(***************************************************************************)
(* The configuration snapshot maps the configured subnets to their         *)
(* entries; the pool caches one connection per subnet, built on demand     *)
(* from the snapshot.                                                       *)
(***************************************************************************)
Entry(id, auth, accounts) == [id |-> id, auth |-> auth, accounts |-> accounts]

Connection(entry) == [subnet |-> entry, manager |-> entry.id]

NoConnection == [some |-> FALSE, v |-> Connection(Entry(<<>>, FALSE, <<>>))]

\* pool.get(id): the connection (if any), the pool afterwards and the lookup
\* made.  A cached connection is returned if the snapshot still holds the
\* entry it was built from; otherwise one is built from the snapshot.
SubnetManagerPool_get(cfg, pl, id) ==
    IF id \in DOMAIN pl /\ id \in DOMAIN cfg /\ pl[id].subnet = cfg[id]
    THEN [conn |-> Some(pl[id]), pool |-> pl, gets |-> <<id>>]
    ELSE IF id \in DOMAIN cfg
    THEN [conn |-> Some(Connection(cfg[id])),
          pool |-> [k \in DOMAIN pl \cup {id} |->
                      IF k = id THEN Connection(cfg[id]) ELSE pl[k]],
          gets |-> <<id>>]
    ELSE [conn |-> NoConnection, pool |-> [k \in DOMAIN pl \ {id} |-> pl[k]],
          gets |-> <<id>>]

check_subnet(subnet_config) ==
    IF subnet_config.auth THEN Ok(Unit) ELSE Err(SubnetMismatch)

parse_from(subnet_config, from) ==
    IF from.some THEN Address_from_str(from.v)
    ELSE IF subnet_config.accounts = <<>> THEN Err(NoDefaultAccount)
    ELSE Ok([addr |-> subnet_config.accounts[1]])

(***************************************************************************)
(* What one call did: its result, the pool after it, the typed handlers    *)
(* invoked, the pool lookups, the SubnetManager operations and the steps   *)
(* taken, each in order; `reload` is set when the call swaps the snapshot. *)
(***************************************************************************)
Outcome(result, pl, gets, mgr, steps) ==
    [result |-> result, pool |-> pl, invoked |-> <<>>, gets |-> gets,
     mgr |-> mgr, steps |-> steps, reload |-> FALSE]

(***************************************************************************)
(* JoinSubnetHandler::handle, one operator per statement: each gets what   *)
(* the statements before it computed, and ends the call on an error.       *)
(* `backend` is what SubnetManager::join_subnet returns if it is called.   *)
(***************************************************************************)
\* conn.manager().join_subnet(subnet, from, collateral, validator_net_addr, worker).await
Join_manager(request, backend, subnet, got, collateral, from, worker) ==
    Outcome(backend, got.pool, got.gets,
            <<[op |-> "join_subnet", conn |-> got.conn.v.manager,
               subnet |-> subnet, from |-> from, collateral |-> collateral,
               validator_net_addr |-> request.validator_net_addr,
               worker |-> worker, ret |-> backend]>>,
            <<"from_str", "parent", "pool.get", "f64_to_token_amount",
              "check_subnet", "parse_from", "worker_addr", "manager">>)

\* let worker = match request.worker_addr { None => from, Some(addr) => Address::from_str(&addr)? };
Join_worker(request, backend, subnet, got, collateral, from, worker) ==
    IF ~worker.ok
    THEN Outcome(worker, got.pool, got.gets, <<>>,
                 <<"from_str", "parent", "pool.get", "f64_to_token_amount",
                   "check_subnet", "parse_from", "worker_addr">>)
    ELSE Join_manager(request, backend, subnet, got, collateral, from, worker.v)

\* let from = parse_from(subnet_config, request.from)?;
Join_from(request, backend, subnet, got, collateral, from) ==
    IF ~from.ok
    THEN Outcome(from, got.pool, got.gets, <<>>,
                 <<"from_str", "parent", "pool.get", "f64_to_token_amount",
                   "check_subnet", "parse_from">>)
    ELSE Join_worker(request, backend, subnet, got, collateral, from.v,
                     IF request.worker_addr.some
                     THEN Address_from_str(request.worker_addr.v)
                     ELSE from)

\* Join_check going on after check_subnet has failed.
Join_check_ignored(request, backend, subnet, got, collateral, checked) ==
    Join_from(request, backend, subnet, got, collateral,
              parse_from(got.conn.v.subnet, request.from))

\* let subnet_config = conn.subnet(); check_subnet(subnet_config)?;
Join_check(request, backend, subnet, got, collateral, checked) ==
    IF ~checked.ok
    THEN Outcome(checked, got.pool, got.gets, <<>>,
                 <<"from_str", "parent", "pool.get", "f64_to_token_amount",
                   "check_subnet">>)
    ELSE Join_from(request, backend, subnet, got, collateral,
                   parse_from(got.conn.v.subnet, request.from))

\* let collateral = handlers::f64_to_token_amount(request.collateral)?;
Join_collateral(request, backend, subnet, got, collateral) ==
    IF ~collateral.ok
    THEN Outcome(collateral, got.pool, got.gets, <<>>,
                 <<"from_str", "parent", "pool.get", "f64_to_token_amount">>)
    ELSE Join_check(request, backend, subnet, got, collateral.v,
                    check_subnet(got.conn.v.subnet))

\* let conn = match self.pool.get(&parent) { None => return Err(..), Some(conn) => conn };
Join_conn(request, backend, subnet, got) ==
    IF ~got.conn.some
    THEN Outcome(Err(ParentSubnetNotFound), got.pool, got.gets, <<>>,
                 <<"from_str", "parent", "pool.get">>)
    ELSE Join_collateral(request, backend, subnet, got,
                         f64_to_token_amount(request.collateral))

\* Join_parent taking a root for its own parent.
Join_parent_of_root(cfg, pl, request, backend, subnet, parent) ==
    Join_conn(request, backend, subnet,
              SubnetManagerPool_get(cfg, pl, IF parent.some THEN parent.v ELSE subnet))

\* let parent = subnet.parent().ok_or_else(|| anyhow!("no parent found"))?;
Join_parent(cfg, pl, request, backend, subnet, parent) ==
    IF ~parent.some
    THEN Outcome(Err(NoParentFound), pl, <<>>, <<>>, <<"from_str", "parent">>)
    ELSE Join_conn(request, backend, subnet,
                   SubnetManagerPool_get(cfg, pl, parent.v))

\* let subnet = SubnetID::from_str(&request.subnet)?;
Join_subnet(cfg, pl, request, backend, subnet) ==
    IF ~subnet.ok
    THEN Outcome(subnet, pl, <<>>, <<>>, <<"from_str">>)
    ELSE Join_parent(cfg, pl, request, backend, subnet.v, SubnetID_parent(subnet.v))

JoinSubnetHandler_handle(cfg, pl, request, backend) ==
    Join_subnet(cfg, pl, request, backend, SubnetID_from_str(request.subnet))

(***************************************************************************)
(* KillSubnetHandler::handle, in the same way.  `backend` is what          *)
(* SubnetManager::kill_subnet returns if it is called.                      *)
(***************************************************************************)
\* conn.manager().kill_subnet(subnet, from).await
Kill_manager(backend, subnet, got, from) ==
    Outcome(backend, got.pool, got.gets,
            <<[op |-> "kill_subnet", conn |-> got.conn.v.manager,
               subnet |-> subnet, from |-> from, ret |-> backend]>>,
            <<"from_str", "parent", "pool.get", "check_subnet", "parse_from",
              "manager">>)

\* let from = parse_from(subnet_config, request.from)?;
Kill_from(backend, subnet, got, from) ==
    IF ~from.ok
    THEN Outcome(from, got.pool, got.gets, <<>>,
                 <<"from_str", "parent", "pool.get", "check_subnet", "parse_from">>)
    ELSE Kill_manager(backend, subnet, got, from.v)

\* let subnet_config = conn.subnet(); check_subnet(subnet_config)?;
Kill_check(request, backend, subnet, got, checked) ==
    IF ~checked.ok
    THEN Outcome(checked, got.pool, got.gets, <<>>,
                 <<"from_str", "parent", "pool.get", "check_subnet">>)
    ELSE Kill_from(backend, subnet, got,
                   parse_from(got.conn.v.subnet, request.from))

\* Kill_conn going on with a connection of its own when the pool has none.
Kill_conn_unwrapped(request, backend, subnet, got) ==
    Kill_check(request, backend, subnet,
               IF got.conn.some THEN got
               ELSE [got EXCEPT !.conn = Some(Connection(Entry(got.gets[1], TRUE, <<>>)))],
               Ok(Unit))

\* let conn = match self.pool.get(&parent) { None => return Err(..), Some(conn) => conn };
Kill_conn(request, backend, subnet, got) ==
    IF ~got.conn.some
    THEN Outcome(Err(ParentSubnetNotFound), got.pool, got.gets, <<>>,
                 <<"from_str", "parent", "pool.get">>)
    ELSE Kill_check(request, backend, subnet, got, check_subnet(got.conn.v.subnet))

\* Kill_parent resolving the subnet itself instead of its parent.
Kill_parent_self(cfg, pl, request, backend, subnet, parent) ==
    IF ~parent.some
    THEN Outcome(Err(NoParentFound), pl, <<>>, <<>>, <<"from_str", "parent">>)
    ELSE Kill_conn(request, backend, subnet, SubnetManagerPool_get(cfg, pl, subnet))

\* let parent = subnet.parent().ok_or_else(|| anyhow!("no parent found"))?;
Kill_parent(cfg, pl, request, backend, subnet, parent) ==
    IF ~parent.some
    THEN Outcome(Err(NoParentFound), pl, <<>>, <<>>, <<"from_str", "parent">>)
    ELSE Kill_conn(request, backend, subnet,
                   SubnetManagerPool_get(cfg, pl, parent.v))

\* let subnet = SubnetID::from_str(&request.subnet)?;
Kill_subnet(cfg, pl, request, backend, subnet) ==
    IF ~subnet.ok
    THEN Outcome(subnet, pl, <<>>, <<>>, <<"from_str">>)
    ELSE Kill_parent(cfg, pl, request, backend, subnet.v, SubnetID_parent(subnet.v))

KillSubnetHandler_handle(cfg, pl, request, backend) ==
    Kill_subnet(cfg, pl, request, backend, SubnetID_from_str(request.subnet))

(***************************************************************************)
(* serde_json values, and the decoding of a payload into the request type  *)
(* of a handler: a required field must be present with its type, an        *)
(* optional one may be absent or null, unknown fields are ignored.         *)
(***************************************************************************)
\* A field's value: null, a string (s) or a number (n).
JNull == [t |-> "null", s |-> <<>>, n |-> [s |-> 0, e |-> 0, m |-> <<>>]]

JStr(s) == [t |-> "str", s |-> s, n |-> [s |-> 0, e |-> 0, m |-> <<>>]]

JNum(f) == [t |-> "num", s |-> <<>>, n |-> f]

\* A payload: null or an object (v: its fields).
PNull == [t |-> "null", v |-> [x \in {} |-> JNull]]

JObj(fields) == [t |-> "obj", v |-> fields]

HasString(o, k) == k \in DOMAIN o /\ o[k].t = "str"

HasNumber(o, k) == k \in DOMAIN o /\ o[k].t = "num"

HasOptString(o, k) == k \notin DOMAIN o \/ o[k].t \in {"null", "str"}

OptString(o, k) == IF k \in DOMAIN o /\ o[k].t = "str" THEN Some(o[k].s) ELSE None

\* serde_json::from_value::<JoinSubnetParams>
from_value_JoinSubnetParams(params) ==
    IF /\ params.t = "obj"
       /\ HasString(params.v, "subnet")
       /\ HasOptString(params.v, "from")
       /\ HasNumber(params.v, "collateral")
       /\ HasString(params.v, "validator_net_addr")
       /\ HasOptString(params.v, "worker_addr")
    THEN Ok([subnet |-> params.v["subnet"].s,
             from |-> OptString(params.v, "from"),
             collateral |-> params.v["collateral"].n,
             validator_net_addr |-> params.v["validator_net_addr"].s,
             worker_addr |-> OptString(params.v, "worker_addr")])
    ELSE Err(InvalidParams)

\* serde_json::from_value::<KillSubnetParams>
from_value_KillSubnetParams(params) ==
    IF /\ params.t = "obj"
       /\ HasString(params.v, "subnet")
       /\ HasOptString(params.v, "from")
    THEN Ok([subnet |-> params.v["subnet"].s,
             from |-> OptString(params.v, "from")])
    ELSE Err(InvalidParams)

\* The request types of the other handlers are structs too.
from_value_Other(params) ==
    IF params.t = "obj" THEN Ok(params.v) ELSE Err(InvalidParams)

\* serde_json::to_value of a response.
to_value(r) == IF r = Unit THEN "null" ELSE "value"

(***************************************************************************)
(* The handlers whose code is outside these sources.  reload_config swaps  *)
(* the snapshot for the one read from the file (`loaded`) unless the       *)
(* reload fails; of the others only the invocation is recorded.            *)
(***************************************************************************)
ReloadConfigHandler_handle(pl, request, backend) ==
    [Outcome(backend, pl, <<>>, <<>>, <<>>) EXCEPT !.reload = backend.ok]

OtherHandler_handle(pl, request, backend) ==
    Outcome(backend, pl, <<>>, <<>>, <<>>)

(***************************************************************************)
(* impl HandlerWrapper for H: decode, invoke, encode.                       *)
(***************************************************************************)
\* serde_json::from_value(params) into H::Request
from_value(h, params) ==
    CASE h = "JoinSubnetHandler" -> from_value_JoinSubnetParams(params)
      [] h = "KillSubnetHandler" -> from_value_KillSubnetParams(params)
      [] OTHER -> from_value_Other(params)

\* self.handle(p).await of the typed handler h
JsonRPCRequestHandler_handle(h, cfg, pl, p, backend) ==
    CASE h = "JoinSubnetHandler" -> JoinSubnetHandler_handle(cfg, pl, p, backend)
      [] h = "KillSubnetHandler" -> KillSubnetHandler_handle(cfg, pl, p, backend)
      [] h = "ReloadConfigHandler" -> ReloadConfigHandler_handle(pl, p, backend)
      [] OTHER -> OtherHandler_handle(pl, p, backend)

\* let r = self.handle(p).await?; Ok(serde_json::to_value(r)?)
Wrapper_encode(h, r) ==
    IF ~r.result.ok
    THEN [r EXCEPT !.invoked = <<h>>,
                   !.steps = <<"from_value", "handle">> \o r.steps]
    ELSE [r EXCEPT !.result = Ok(to_value(r.result.v)),
                   !.invoked = <<h>>,
                   !.steps = <<"from_value", "handle">> \o r.steps \o <<"to_value">>]

\* Wrapper_decoded invoking the handler before looking at the decode result.
Wrapper_decoded_late(h, cfg, pl, backend, p) ==
    IF ~p.ok
    THEN [Outcome(p, pl, <<>>, <<>>, <<"from_value", "handle">>) EXCEPT !.invoked = <<h>>]
    ELSE Wrapper_encode(h, JsonRPCRequestHandler_handle(h, cfg, pl, p.v, backend))

\* let p = serde_json::from_value(params)?;
Wrapper_decoded(h, cfg, pl, backend, p) ==
    IF ~p.ok
    THEN Outcome(p, pl, <<>>, <<>>, <<"from_value">>)
    ELSE Wrapper_encode(h, JsonRPCRequestHandler_handle(h, cfg, pl, p.v, backend))

HandlerWrapper_handle(h, cfg, pl, params, backend) ==
    Wrapper_decoded(h, cfg, pl, backend, from_value(h, params))

(***************************************************************************)
(* The method names (crate::config::json_rpc_methods).                      *)
(***************************************************************************)
RELOAD_CONFIG == "reload_config"

CREATE_SUBNET == "create_subnet"

LEAVE_SUBNET == "leave_subnet"

KILL_SUBNET == "kill_subnet"

JOIN_SUBNET == "join_subnet"

RPC_SUBNET == "rpc_subnet"

FUND == "fund"

RELEASE == "release"

PROPAGATE == "propagate"

SEND_CROSS_MSG == "send_cross_msg"

SEND_VALUE == "send_value"

WALLET_NEW == "wallet_new"

WALLET_REMOVE == "wallet_remove"

WALLET_IMPORT == "wallet_import"

WALLET_EXPORT == "wallet_export"

WALLET_BALANCES == "wallet_balances"

SET_VALIDATOR_NET_ADDR == "set_validator_net_addr"

LIST_CHILD_SUBNETS == "list_child_subnets"

LIST_BOTTOMUP_CHECKPOINTS == "list_bottomup_checkpoints"

LAST_TOPDOWN_EXECUTED == "last_topdown_executed"

QUERY_VALIDATOR_SET == "query_validator_set"

(***************************************************************************)
(* Handlers: the registry, a HashMap<Method, Box<dyn HandlerWrapper>>.      *)
(***************************************************************************)
\* HashMap::insert: the value of a key already present is replaced.
HashMap_insert(map, k, v) ==
    [x \in DOMAIN map \cup {k} |-> IF x = k THEN v ELSE map[x]]

HashMap_new == [x \in {} |-> ""]

\* The registrations with the last one made under the name of the one before.
Registrations_copy_paste ==
    << <<RELOAD_CONFIG, "ReloadConfigHandler">>,
       <<CREATE_SUBNET, "CreateSubnetHandler">>,
       <<LEAVE_SUBNET, "LeaveSubnetHandler">>,
       <<KILL_SUBNET, "KillSubnetHandler">>,
       <<JOIN_SUBNET, "JoinSubnetHandler">>,
       <<RPC_SUBNET, "RPCSubnetHandler">>,
       <<FUND, "FundHandler">>,
       <<RELEASE, "ReleaseHandler">>,
       <<PROPAGATE, "PropagateHandler">>,
       <<SEND_CROSS_MSG, "SendCrossMsgHandler">>,
       <<SEND_VALUE, "SendValueHandler">>,
       <<WALLET_NEW, "WalletNewHandler">>,
       <<WALLET_REMOVE, "WalletRemoveHandler">>,
       <<WALLET_IMPORT, "WalletImportHandler">>,
       <<WALLET_BALANCES, "WalletBalancesHandler">>,
       <<SET_VALIDATOR_NET_ADDR, "SetValidatorNetAddrHandler">>,
       <<LIST_CHILD_SUBNETS, "ListSubnetsHandler">>,
       <<LIST_BOTTOMUP_CHECKPOINTS, "ListBottomUpCheckpointsHandler">>,
       <<LAST_TOPDOWN_EXECUTED, "LastTopDownExecHandler">>,
       <<LAST_TOPDOWN_EXECUTED, "QueryValidatorSetHandler">> >>

\* The `handlers.insert(String::from(NAME), h)` statements of Handlers::new,
\* in their order.  WalletExportHandler is built and not inserted.
Registrations ==
    << <<RELOAD_CONFIG, "ReloadConfigHandler">>,
       <<CREATE_SUBNET, "CreateSubnetHandler">>,
       <<LEAVE_SUBNET, "LeaveSubnetHandler">>,
       <<KILL_SUBNET, "KillSubnetHandler">>,
       <<JOIN_SUBNET, "JoinSubnetHandler">>,
       <<RPC_SUBNET, "RPCSubnetHandler">>,
       <<FUND, "FundHandler">>,
       <<RELEASE, "ReleaseHandler">>,
       <<PROPAGATE, "PropagateHandler">>,
       <<SEND_CROSS_MSG, "SendCrossMsgHandler">>,
       <<SEND_VALUE, "SendValueHandler">>,
       <<WALLET_NEW, "WalletNewHandler">>,
       <<WALLET_REMOVE, "WalletRemoveHandler">>,
       <<WALLET_IMPORT, "WalletImportHandler">>,
       <<WALLET_BALANCES, "WalletBalancesHandler">>,
       <<SET_VALIDATOR_NET_ADDR, "SetValidatorNetAddrHandler">>,
       <<LIST_CHILD_SUBNETS, "ListSubnetsHandler">>,
       <<LIST_BOTTOMUP_CHECKPOINTS, "ListBottomUpCheckpointsHandler">>,
       <<LAST_TOPDOWN_EXECUTED, "LastTopDownExecHandler">>,
       <<QUERY_VALIDATOR_SET, "QueryValidatorSetHandler">> >>

\* The registrations with the insert of WalletExportHandler left in.
RegistrationsWithExport ==
    << <<RELOAD_CONFIG, "ReloadConfigHandler">>,
       <<CREATE_SUBNET, "CreateSubnetHandler">>,
       <<LEAVE_SUBNET, "LeaveSubnetHandler">>,
       <<KILL_SUBNET, "KillSubnetHandler">>,
       <<JOIN_SUBNET, "JoinSubnetHandler">>,
       <<RPC_SUBNET, "RPCSubnetHandler">>,
       <<FUND, "FundHandler">>,
       <<RELEASE, "ReleaseHandler">>,
       <<PROPAGATE, "PropagateHandler">>,
       <<SEND_CROSS_MSG, "SendCrossMsgHandler">>,
       <<SEND_VALUE, "SendValueHandler">>,
       <<WALLET_NEW, "WalletNewHandler">>,
       <<WALLET_REMOVE, "WalletRemoveHandler">>,
       <<WALLET_IMPORT, "WalletImportHandler">>,
       <<WALLET_BALANCES, "WalletBalancesHandler">>,
       <<SET_VALIDATOR_NET_ADDR, "SetValidatorNetAddrHandler">>,
       <<LIST_CHILD_SUBNETS, "ListSubnetsHandler">>,
       <<LIST_BOTTOMUP_CHECKPOINTS, "ListBottomUpCheckpointsHandler">>,
       <<LAST_TOPDOWN_EXECUTED, "LastTopDownExecHandler">>,
       <<QUERY_VALIDATOR_SET, "QueryValidatorSetHandler">>,
       <<WALLET_EXPORT, "WalletExportHandler">> >>

\* The statements `handlers.insert(name, h)` run in order on the map.
RECURSIVE InsertAll(_, _)
InsertAll(map, regs) ==
    IF regs = <<>> THEN map
    ELSE InsertAll(HashMap_insert(map, Head(regs)[1], Head(regs)[2]), Tail(regs))

\* The body of Handlers::new for a list of inserts: `let mut handlers =
\* HashMap::new(); handlers.insert(..); ...; Ok(Self { handlers })`.
Handlers_build(regs) == Ok(InsertAll(HashMap_new, regs))

\* Handlers::new with WalletExportHandler registered.
Handlers_new_with_export == Handlers_build(RegistrationsWithExport)

\* Handlers::new
Handlers_new == Handlers_build(Registrations)

\* Handlers::handle passing an unknown method on to a handler.
Handlers_handle_any(hs, method, cfg, pl, params, backend) ==
    HandlerWrapper_handle(IF method \in DOMAIN hs THEN hs[method] ELSE "OtherHandler",
                          cfg, pl, params, backend)

\* Handlers::handle
Handlers_handle(hs, method, cfg, pl, params, backend) ==
    IF method \in DOMAIN hs
    THEN HandlerWrapper_handle(hs[method], cfg, pl, params, backend)
    ELSE Outcome(Err(MethodNotSupported), pl, <<>>, <<>>, <<>>)

(***************************************************************************)
(* The inputs: subnet strings, addresses, amounts, payloads, backend       *)
(* results and configuration snapshots.                                     *)
(***************************************************************************)
MaxDepth == 3

MaxConfigDepth == 2

MaxFracStep == 1

SegNames == <<"root", "A", "B", "C", "D">>

\* The string "/root/A/..." of a subnet at depth k, and its SubnetID.
PathStr(k) == [i \in 1..(2 * k) |-> IF i % 2 = 1 THEN "/" ELSE SegNames[i \div 2]]

Path(k) == [i \in 1..k |-> SegNames[i]]

SubnetStrs ==
    {PathStr(k) : k \in 1..MaxDepth} \cup {<<>>, <<"root">>, <<"/", "?">>}

\* 1000000.1, 0.0000000009, -1.0 and 0.3 as f64.
F64_1000000_1 == F64(0, 1042, <<4915, 6553, 12, 7433>>)

F64_9e_10 == F64(0, 992, <<5490, 2197, 7925, 7640>>)

F64_minus_1 == F64(1, 1023, <<>>)

F64_0_3 == F64(0, 1021, <<4915, 6553, 3276, 1638>>)

Collaterals == {F64_1000000_1, F64_9e_10, F64_minus_1, F64_0_3}

\* <<"absent">>: the field is left out; <<"null">>: it is null.
FromStrs == {<<"absent">>, <<"f1from">>, <<"not an address">>}

WorkerStrs == {<<"null">>, <<"f1worker">>, <<"not an address">>}

OptField(k, s) ==
    IF s = <<"absent">> THEN [x \in {} |-> JNull]
    ELSE [x \in {k} |-> IF s = <<"null">> THEN JNull ELSE JStr(s)]

NetAddr == <<"/ip4/127.0.0.1/tcp/1347">>

JoinParams(s, fr, c, w) ==
    JObj([subnet |-> JStr(s), collateral |-> JNum(c),
          validator_net_addr |-> JStr(NetAddr)]
         @@ OptField("from", fr) @@ OptField("worker_addr", w))

KillParams(s, fr) == JObj([subnet |-> JStr(s)] @@ OptField("from", fr))

JoinShaped ==
    {JoinParams(s, fr, c, w) :
        s \in SubnetStrs, fr \in FromStrs, c \in Collaterals, w \in WorkerStrs}

KillShaped == {KillParams(s, fr) : s \in SubnetStrs, fr \in FromStrs}

\* Payloads that are no JoinSubnetParams: null, no collateral, a collateral
\* that is a string, a subnet that is a number.
NotJoinParams ==
    {PNull,
     KillParams(PathStr(2), <<"f1from">>),
     JObj([subnet |-> JStr(PathStr(2)), collateral |-> JStr(<<"1.5">>),
           validator_net_addr |-> JStr(NetAddr)]),
     JObj([subnet |-> JNum(F64_0_3), collateral |-> JNum(F64_0_3),
           validator_net_addr |-> JStr(NetAddr)])}

NotKillParams ==
    {PNull,
     JObj([from |-> JStr(<<"f1from">>)]),
     JObj([subnet |-> JStr(PathStr(2)), from |-> JNum(F64_0_3)])}

JoinPayloads == JoinShaped \cup NotJoinParams

KillPayloads == KillShaped \cup NotKillParams \cup {JoinParams(PathStr(2), <<"absent">>, F64_0_3, <<"null">>)}

OtherPayloads == {PNull, JObj([path |-> JNull])}

BackendErrors == {"backend: transaction failed", "backend: rpc unreachable"}

Backends == {Ok(Unit)} \cup {Err(e) : e \in BackendErrors}

Snapshot(depth, auth, accounts) ==
    [id \in {Path(k) : k \in 1..depth} |-> Entry(id, auth, accounts)]

ConfigSnapshots ==
    {Snapshot(d, TRUE, <<<<"f1default">>>>) : d \in 0..MaxConfigDepth}
    \cup {Snapshot(1, FALSE, <<<<"f1default">>>>), Snapshot(1, TRUE, <<>>)}

OtherMethods ==
    {Registrations[i][1] : i \in 1..Len(Registrations)}
    \ {JOIN_SUBNET, KILL_SUBNET, RELOAD_CONFIG}

UnregisteredMethods == {WALLET_EXPORT, "nonexistent_method"}

ExpSamples ==
    {0, 1, 992, 993, 1021, 1022, 1023, 1042, 1075, 1076,
     1120, 1121, 1122, 1150, 2046, 2047}

FracBases ==
    {<<>>, F64_1000000_1.m, F64_9e_10.m, F64_0_3.m, <<937, 4232, 6504, 596>>,
     <<8190 - MaxFracStep, 8191, 8191, 8191>>}

F64Inputs ==
    {F64(s, e, Add(m, Num(k))) :
        s \in {0, 1}, e \in ExpSamples, m \in FracBases, k \in 0..MaxFracStep}

(***************************************************************************)
(* The state: the registry, the configuration snapshot, the pool, the last *)
(* call dispatched with what it did, and the last amount converted.        *)
(***************************************************************************)
VARIABLES handlers, config, pool, call, conv

vars == <<handlers, config, pool, call, conv>>

NoCall ==
    [method |-> "", params |-> PNull, result |-> Ok("null"), invoked |-> <<>>,
     gets |-> <<>>, mgr |-> <<>>, steps |-> <<>>]

NoConv == [done |-> FALSE, f |-> F64(0, 0, <<>>), out |-> Ok(<<>>)]

Init ==
    /\ handlers = Handlers_new.v
    /\ config \in ConfigSnapshots
    /\ pool = [x \in {} |-> 0]
    /\ call = NoCall
    /\ conv = NoConv

\* The state after a call that did `o`.
Commit(method, params, loaded, o) ==
    /\ call' = [method |-> method, params |-> params, result |-> o.result,
                invoked |-> o.invoked, gets |-> o.gets, mgr |-> o.mgr,
                steps |-> o.steps]
    /\ config' = IF o.reload THEN loaded ELSE config
    /\ pool' = o.pool
    /\ UNCHANGED <<handlers, conv>>

\* One call of Handlers::handle, from the request to its result.  `call`
\* holds one call at a time, from its dispatch until its caller has taken
\* the result.
Dispatch(method, params, backend, loaded) ==
    /\ call.method = ""
    /\ Commit(method, params, loaded,
           Handlers_handle(handlers, method, config, pool, params, backend))

DispatchJoin ==
    \E params \in JoinPayloads, backend \in Backends :
        Dispatch(JOIN_SUBNET, params, backend, config)

DispatchKill ==
    \E params \in KillPayloads, backend \in Backends :
        Dispatch(KILL_SUBNET, params, backend, config)

DispatchReload ==
    \E params \in OtherPayloads, backend \in Backends, loaded \in ConfigSnapshots :
        Dispatch(RELOAD_CONFIG, params, backend, loaded)

DispatchOther ==
    \E method \in OtherMethods, params \in OtherPayloads, backend \in Backends :
        Dispatch(method, params, backend, config)

DispatchUnregistered ==
    \E method \in UnregisteredMethods, params \in OtherPayloads \cup {JoinParams(PathStr(2), <<"absent">>, F64_0_3, <<"null">>)} :
        Dispatch(method, params, Ok(Unit), config)

\* The caller of Handlers::handle takes the result and answers the request.
Respond ==
    /\ call.method # ""
    /\ call' = NoCall
    /\ UNCHANGED <<handlers, config, pool, conv>>

Next ==
    \/ DispatchJoin
    \/ DispatchKill
    \/ DispatchReload
    \/ DispatchOther
    \/ DispatchUnregistered
    \/ Respond

Spec == Init /\ [][Next]_vars

\* One call of f64_to_token_amount.
Convert(f) ==
    /\ ~conv.done
    /\ conv' = [done |-> TRUE, f |-> f, out |-> f64_to_token_amount(f)]
    /\ UNCHANGED <<handlers, config, pool, call>>

NextAmount == \E f \in F64Inputs : Convert(f)

SpecAmount == Init /\ [][NextAmount]_vars

(***************************************************************************)
(* The last call, read from its raw payload.                                *)
(***************************************************************************)
JoinOrKill == call.method \in {JOIN_SUBNET, KILL_SUBNET}

\* The payload decodes into the request type of the method's handler.
Decodable ==
    CASE call.method = JOIN_SUBNET -> call.params \in JoinShaped
      [] call.method = KILL_SUBNET -> call.params \in KillShaped \cup JoinShaped
      [] OTHER -> call.params.t = "obj"

HasStr(k) == k \in DOMAIN call.params.v /\ call.params.v[k].t = "str"

ReqStr(k) == call.params.v[k].s

\* The subnet string names a subnet: "/root", "/root/A", ...
WellFormedSubnet == ReqStr("subnet") \in {PathStr(k) : k \in 1..MaxDepth}

Depth == Len(ReqStr("subnet")) \div 2

ReqSubnet == Path(Depth)

ReqParent == Path(Depth - 1)

NonRootRequest == JoinOrKill /\ Decodable /\ WellFormedSubnet /\ Depth > 1

\* The error of the first step that fails before the SubnetManager
\* operation, "none" if none does.
StepError ==
    IF ~WellFormedSubnet THEN InvalidSubnetId
    ELSE IF Depth = 1 THEN NoParentFound
    ELSE IF ReqParent \notin DOMAIN config THEN ParentSubnetNotFound
    ELSE IF ~config[ReqParent].auth THEN SubnetMismatch
    ELSE IF HasStr("from") /\ ReqStr("from") \notin ValidAddrs THEN InvalidAddress
    ELSE IF ~HasStr("from") /\ config[ReqParent].accounts = <<>> THEN NoDefaultAccount
    ELSE IF /\ call.method = JOIN_SUBNET
            /\ HasStr("worker_addr")
            /\ ReqStr("worker_addr") \notin ValidAddrs THEN InvalidAddress
    ELSE "none"

Elems(seq) == {seq[i] : i \in 1..Len(seq)}

\* The steps a handler takes before the SubnetManager operation.
StepsBeforeManager ==
    {"from_str", "parent", "pool.get", "check_subnet", "parse_from"}
    \cup (IF call.method = JOIN_SUBNET THEN {"f64_to_token_amount"} ELSE {})

(***************************************************************************)
(* C1: a call of a method that is not a key of the registry fails with     *)
(* "method not supported", and the call invokes no handler, looks nothing  *)
(* up in the pool and invokes no SubnetManager operation.                   *)
(***************************************************************************)
C1_UnknownMethodNotSupported ==
    (call.method # "" /\ call.method \notin DOMAIN handlers) =>
        /\ call.result = Err(MethodNotSupported)
        /\ call.invoked = <<>>
        /\ call.gets = <<>>
        /\ call.mgr = <<>>
        /\ call.steps = <<>>

C1_Witness ==
    /\ call.method = "nonexistent_method"
    /\ call.params \in JoinShaped
    /\ DOMAIN pool # {}
    /\ call.result = Err(MethodNotSupported)

(***************************************************************************)
(* C2: a call of a registered method decodes, then invokes, then encodes:  *)
(* a payload that does not decode ends the call with InvalidParams before  *)
(* the typed handler is invoked (no pool lookup, no SubnetManager          *)
(* operation); the typed handler is invoked at most once, after the        *)
(* decoding, and the encoding comes last and only on success.               *)
(***************************************************************************)
C2_DecodeInvokeEncode ==
    call.method \in DOMAIN handlers =>
        /\ Len(call.invoked) <= 1
        /\ ~Decodable =>
              /\ call.result = Err(InvalidParams)
              /\ call.invoked = <<>>
              /\ call.gets = <<>>
              /\ call.mgr = <<>>
              /\ call.steps = <<"from_value">>
        /\ Decodable =>
              /\ call.invoked = <<handlers[call.method]>>
              /\ SubSeq(call.steps, 1, 2) = <<"from_value", "handle">>
              /\ \A i \in 3..Len(call.steps) : call.steps[i] \notin {"from_value", "handle"}
              /\ \A i \in 1..Len(call.steps) :
                    call.steps[i] = "to_value" <=> (call.result.ok /\ i = Len(call.steps))

C2_Witness ==
    /\ call.method = JOIN_SUBNET
    /\ call.params = KillParams(PathStr(2), <<"f1from">>)
    /\ Path(1) \in DOMAIN config
    /\ call.result = Err(InvalidParams)
    /\ call.invoked = <<>>

(***************************************************************************)
(* C3: "wallet_export" is never a key of the registry and no key maps to   *)
(* WalletExportHandler, so a call of "wallet_export" fails with "method    *)
(* not supported" and WalletExportHandler is never invoked; no step        *)
(* changes the set of registered methods.                                   *)
(***************************************************************************)
C3_State ==
    /\ WALLET_EXPORT \notin DOMAIN handlers
    /\ \A m \in DOMAIN handlers : handlers[m] # "WalletExportHandler"
    /\ "WalletExportHandler" \notin Elems(call.invoked)
    /\ call.method = WALLET_EXPORT =>
          (call.result = Err(MethodNotSupported) /\ call.invoked = <<>>)

\* C3: the above holds in every reachable state, and no step changes the
\* set of registered methods.
C3_WalletExportUnreachable ==
    [](C3_State) /\ [][DOMAIN handlers' = DOMAIN handlers]_vars

C3_Witness ==
    /\ call.method = WALLET_EXPORT
    /\ call.result = Err(MethodNotSupported)
    /\ DOMAIN pool # {}

(***************************************************************************)
(* C4: a join_subnet or kill_subnet request for a root subnet fails with   *)
(* "no parent found", whatever its other fields and the configuration;     *)
(* the pool is not consulted and no SubnetManager operation is invoked.     *)
(***************************************************************************)
C4_RootHasNoParent ==
    (JoinOrKill /\ Decodable /\ WellFormedSubnet /\ Depth = 1) =>
        /\ call.result = Err(NoParentFound)
        /\ call.gets = <<>>
        /\ call.mgr = <<>>

C4_Witness ==
    /\ call.method = JOIN_SUBNET
    /\ call.params \in JoinShaped
    /\ ReqStr("subnet") = PathStr(1)
    /\ ReqSubnet \in DOMAIN config
    /\ call.result = Err(NoParentFound)

(***************************************************************************)
(* C5: a join_subnet or kill_subnet request for a non-root subnet whose    *)
(* parent is not in the configuration fails with "target parent subnet not *)
(* found", and no SubnetManager operation is invoked, whatever the other   *)
(* fields are.                                                              *)
(***************************************************************************)
C5_ParentNotInPool ==
    (NonRootRequest /\ ReqParent \notin DOMAIN config) =>
        /\ call.result = Err(ParentSubnetNotFound)
        /\ call.mgr = <<>>

C5_Witness ==
    /\ call.method = KILL_SUBNET
    /\ call.params \in KillShaped
    /\ ReqStr("subnet") = PathStr(2)
    /\ config = Snapshot(0, TRUE, <<>>)
    /\ call.result = Err(ParentSubnetNotFound)

(***************************************************************************)
(* C6: a join_subnet request with a negative collateral, all of whose      *)
(* other steps succeed, fails with InvalidAmount and does not reach        *)
(* SubnetManager::join_subnet.                                              *)
(***************************************************************************)
C6_NegativeCollateralRejected ==
    (/\ call.method = JOIN_SUBNET
     /\ call.params \in JoinShaped
     /\ StepError = "none"
     /\ IsNegative(call.params.v["collateral"].n)) =>
        /\ call.result = Err(InvalidAmount)
        /\ call.mgr = <<>>

(***************************************************************************)
(* The exact value of f * 10^9 for a finite f >= 0 is the fraction         *)
(* ExactNum(f) / 2^ExactShift(f); ExactNano(f) is its integer part.         *)
(***************************************************************************)
NonNegativeFinite(f) == IsFinite(f) /\ (f.s = 0 \/ Sig(f) = <<>>)

NanoPerUnit == Dec(<<1, 0, 0, 0, 0, 0, 0, 0, 0, 0>>)

ExactNum(f) ==
    IF Exp2(f) >= 0 THEN ShiftLeft(Mul(Sig(f), NanoPerUnit), Exp2(f))
    ELSE Mul(Sig(f), NanoPerUnit)

ExactShift(f) == IF Exp2(f) >= 0 THEN 0 ELSE 0 - Exp2(f)

ExactNano(f) == ShiftRight(ExactNum(f), ExactShift(f))

\* x * (1 - 2^-53) - 1 < n <= x * (1 + 2^-53) for x = X / 2^k.
InBand(n, X, k) ==
    /\ Leq(ShiftLeft(n, k + 53), Add(ShiftLeft(X, 53), X))
    /\ Less(ShiftLeft(X, 53), Add(ShiftLeft(Add(n, <<1>>), k + 53), X))

Nano_1000000_1 == Dec(<<1, 0, 0, 0, 0, 0, 0, 1, 0, 0, 0, 0, 0, 0, 0, 0>>)

C8_ParentResolved ==
    NonRootRequest =>
        /\ call.gets = <<ReqParent>>
        /\ \A i \in 1..Len(call.mgr) :
              /\ call.mgr[i].conn = ReqParent
              /\ call.mgr[i].subnet = ReqSubnet

C8_Witness ==
    /\ call.method = KILL_SUBNET
    /\ call.params \in KillShaped
    /\ ReqStr("subnet") = PathStr(3)
    /\ Len(call.mgr) = 1
    /\ call.mgr[1].conn = Path(2)
    /\ call.mgr[1].subnet = Path(3)

(***************************************************************************)
(* C9: in join_subnet and kill_subnet the SubnetManager operation is the   *)
(* last step, invoked at most once and only when every step before it      *)
(* succeeded; the first step that fails ends the call with its error and   *)
(* without a SubnetManager operation; when the operation is invoked the    *)
(* call's result is what it returned: its error unchanged, or its unit      *)
(* response encoded as null.                                                *)
(***************************************************************************)
C9_ManagerLast ==
    (JoinOrKill /\ Decodable) =>
        /\ Len(call.mgr) <= 1
        /\ StepError # "none" =>
              /\ call.result = Err(StepError)
              /\ call.mgr = <<>>
              /\ "manager" \notin Elems(call.steps)
        /\ StepError = "none" =>
              /\ Len(call.mgr) = 1
              /\ call.result = (IF call.mgr[1].ret.ok THEN Ok("null") ELSE call.mgr[1].ret)
              /\ \E i \in 1..Len(call.steps) :
                    /\ call.steps[i] = "manager"
                    /\ StepsBeforeManager \subseteq {call.steps[j] : j \in 1..(i - 1)}
                    /\ \A j \in (i + 1)..Len(call.steps) : call.steps[j] = "to_value"

C9_Witness ==
    /\ call.method = JOIN_SUBNET
    /\ call.params \in JoinShaped
    /\ Len(call.mgr) = 1
    /\ call.mgr[1].op = "join_subnet"
    /\ ~call.mgr[1].ret.ok
    /\ call.result = call.mgr[1].ret

(***************************************************************************)
(* C10 as stated: a registry built with a method name registered twice is  *)
(* refused.                                                                 *)
(***************************************************************************)
C10_DuplicateRefused ==
    \A m \in DOMAIN handlers :
        ~Handlers_build(Registrations \o << <<m, "OtherHandler">> >>).ok

(***************************************************************************)
(* C10 amended: the names Handlers::new registers are pairwise distinct,   *)
(* so the registry has one entry per registration and maps each name to    *)
(* the handler registered for it; the construction checks nothing: built   *)
(* with a name registered twice it succeeds and keeps the later handler.    *)
(***************************************************************************)
C10_RegistryOneHandlerPerName ==
    /\ Cardinality(DOMAIN handlers) = Len(Registrations)
    /\ \A i \in 1..Len(Registrations) :
          /\ Registrations[i][1] \in DOMAIN handlers
          /\ handlers[Registrations[i][1]] = Registrations[i][2]
    /\ \A m \in DOMAIN handlers :
          /\ Handlers_build(Registrations \o << <<m, "OtherHandler">> >>).ok
          /\ Handlers_build(Registrations \o << <<m, "OtherHandler">> >>).v[m] = "OtherHandler"
    /\ (call.method \in DOMAIN handlers /\ Decodable) =>
          call.invoked = <<handlers[call.method]>>

C10_Witness ==
    /\ call.method = QUERY_VALIDATOR_SET
    /\ call.invoked = <<"QueryValidatorSetHandler">>
    /\ call.result.ok
====
